---- MODULE Spec2Model ----
(***************************************************************************)
(* State-machine model of the satsgotchi programs:                         *)
(*   contracts/satsgotchi/src/lib.rs  - the pet state program              *)
(*   contracts/token/src/lib.rs       - the $GOTCHI token program          *)
(*                                                                         *)
(* One action per instruction processor.  An instruction reads the account *)
(* data, computes, and either returns an error (nothing is emitted) or     *)
(* emits the new account data with add_state_transition.                   *)
(*                                                                         *)
(* Integers.  TLC's integers are 32-bit, so a u64 is modelled as a word    *)
(* 0..U64_MAX with U64_MAX below 2^31.  Block heights and the pet's reward *)
(* counters are kept as they are (they are far below the word's end unless *)
(* an input pushes them there).  Token amounts are counted in units of     *)
(* 10^10 base units: every constant of the token program is an exact       *)
(* multiple of that unit, and 2^64 / 10^10 = 1844674407 is the modulus.    *)
(* u8 fields keep their width (0..255).                                    *)
(*                                                                         *)
(* Unchecked arithmetic.  The code uses +, -, * and += on u8 and u64.  A   *)
(* build with overflow checks panics on overflow (the transaction aborts   *)
(* and nothing is emitted), a build without them wraps.  overflow_checks   *)
(* is chosen at Init and never changes.                                    *)
(***************************************************************************)
EXTENDS Integers, Sequences, FiniteSets, TLC

VARIABLES
    overflow_checks,  \* TRUE: arithmetic overflow panics; FALSE: it wraps
    pet,              \* data of the pet state account
    res,              \* outcome of the last pet instruction
    ledger,           \* data of the token state account
    bal,              \* data of the balance accounts
    tres,             \* outcome of the last token instruction
    steps,            \* number of token instructions issued so far
    height,           \* block height of the chain the instructions run on
    sync_state,           \* relay: the row of table sync_state
    processed_transfers,  \* relay: the rows of table processed_transfers
    address_registry,     \* relay: Bitcoin address -> Arch key
    submitted,            \* relay: transfers whose ownership update was submitted
    scanned,              \* relay: blocks scanned by the successful cycles
    cycle                 \* relay: what the last sync cycle read and returned

oracleVars ==
    <<sync_state, processed_transfers, address_registry, submitted, scanned, cycle>>
vars == <<overflow_checks, pet, res, ledger, bal, tres, steps, height, oracleVars>>

\* the relay has not been started
OracleOff ==
    /\ sync_state = 0
    /\ processed_transfers = 0
    /\ address_registry = 0
    /\ submitted = 0
    /\ scanned = 0
    /\ cycle = 0
petVars == <<pet, res>>
tokenVars == <<ledger, bal, tres, steps>>

----------------------------------------------------------------------------
(* Machine arithmetic                                                      *)

U8_MAX == 255
U64_MAX == 1844674406

Min(a, b) == IF a < b THEN a ELSE b

\* `x as u8`: the low eight bits
AsU8(x) == x % (U8_MAX + 1)

\* u8 `a + b`
U8AddOvf(a, b) == a + b > U8_MAX
U8AddWrap(a, b) == (a + b) % (U8_MAX + 1)

\* saturating_sub, on u8 and on u64
SatSub(a, b) == IF a > b THEN a - b ELSE 0

\* u64 `a + b`
AddOvf(a, b) == a > U64_MAX - b
AddWrap(a, b) == IF a > U64_MAX - b THEN (a - (U64_MAX - b)) - 1 ELSE a + b

\* u64 `a - b`
SubOvf(a, b) == a < b
SubWrap(a, b) == IF a < b THEN (U64_MAX - (b - a)) + 1 ELSE a - b

\* u64 `a * b`; the wrapped product by doubling, never leaving the word
MulOvf(a, b) == a # 0 /\ b > U64_MAX \div a
RECURSIVE MulWrap(_, _)
MulWrap(a, b) ==
    IF b = 0 THEN 0
    ELSE LET h == MulWrap(a, b \div 2)
             d == AddWrap(h, h)
         IN  IF b % 2 = 1 THEN AddWrap(d, a) ELSE d

----------------------------------------------------------------------------
(* Pet program: parameters and inputs                                      *)

Keys == {"k1", "k2"}
Inscriptions == {"insc1"}
Levels == {"Egg", "Baby", "Child", "Teen", "Adult", "Senior", "Ascended"}

\* the position of a level in enum Level
LevelIndex(level) ==
    CASE level = "Egg" -> 0
      [] level = "Baby" -> 1
      [] level = "Child" -> 2
      [] level = "Teen" -> 3
      [] level = "Adult" -> 4
      [] level = "Senior" -> 5
      [] level = "Ascended" -> 6

\* get_current_block(), and the literal of process_initialize
CURRENT_BLOCK == 800000
INIT_BLOCK == 800000
BLOCKS_PER_DAY == 144

\* current_block values offered to UpdateState, as offsets from INIT_BLOCK
BlockOffsets == {0, 144, 1440, 36864}
BlockInputs == {INIT_BLOCK - 1} \cup {INIT_BLOCK + d : d \in BlockOffsets} \cup {U64_MAX}

\* account data that does not decode (the account before Initialize)
NoPet ==
    [exists |-> FALSE, inscription_id |-> "", owner |-> "", level |-> "Egg",
     status |-> "Alive", health |-> 0, happiness |-> 0, hunger |-> 0,
     birth_block |-> 0, last_fed_block |-> 0, last_played_block |-> 0,
     last_cleaned_block |-> 0, last_update_block |-> 0, care_mistakes |-> 0,
     perfect_care_days |-> 0, poop_count |-> 0, sick |-> FALSE,
     total_earned |-> 0, unclaimed_rewards |-> 0, care_multiplier |-> 0,
     evolution_eligible_block |-> 0]

\* the outcome of an instruction: the instruction and its inputs, its result,
\* whether a state transition was emitted, whether u8 / u64 arithmetic
\* overflowed while computing it, and the amounts of its msg! line
Outcome(op, args, code, emitted, o8, o64, log) ==
    [op |-> op, args |-> args, code |-> code, emitted |-> emitted,
     ovf8 |-> o8, ovf64 |-> o64, log |-> log]

NoOutcome == Outcome("none", <<>>, "Ok", FALSE, FALSE, FALSE, <<>>)

\* What a processor returns: an error, success without a state transition,
\* or a new state together with the overflows met while computing it.
Reject(code) ==
    [code |-> code, emit |-> FALSE, state |-> NoPet, ovf8 |-> FALSE, ovf64 |-> FALSE,
     log |-> <<>>]
Skip ==
    [code |-> "Ok", emit |-> FALSE, state |-> NoPet, ovf8 |-> FALSE, ovf64 |-> FALSE,
     log |-> <<>>]
DoneLog(next, o8, o64, log) ==
    [code |-> "Ok", emit |-> TRUE, state |-> next, ovf8 |-> o8, ovf64 |-> o64,
     log |-> log]
Done(next, o8, o64) == DoneLog(next, o8, o64, <<>>)

\* The effect of a pet instruction whose processor returned r: an overflow
\* under overflow checks is a panic (nothing is emitted); otherwise the new
\* state, if any, is emitted with add_state_transition.
Apply(op, args, r) ==
    IF overflow_checks /\ (r.ovf8 \/ r.ovf64)
    THEN /\ pet' = pet
         /\ res' = Outcome(op, args, "Panic", FALSE, r.ovf8, r.ovf64, <<>>)
    ELSE /\ pet' = IF r.emit THEN r.state ELSE pet
         /\ res' = Outcome(op, args, r.code, r.emit, r.ovf8, r.ovf64, r.log)

----------------------------------------------------------------------------
(* Pet program: helper functions                                           *)

get_current_block == CURRENT_BLOCK

is_poop_generated == get_current_block % 5 = 0

get_feed_threshold(level) ==
    CASE level = "Baby" -> 144
      [] level = "Child" -> 120
      [] level = "Teen" -> 108
      [] level = "Adult" -> 96
      [] level = "Senior" -> 84
      [] OTHER -> 144

\* mutant of should_die: neglect never kills
should_die_Never(state, current_block) == FALSE

should_die(state, current_block) ==
    LET days_neglected == SatSub(current_block, state.last_fed_block) \div BLOCKS_PER_DAY
    IN  CASE state.level = "Baby" -> days_neglected > 5
          [] state.level = "Child" -> days_neglected > 3
          [] state.level = "Teen" -> days_neglected > 2
          [] state.level = "Adult" -> days_neglected > 2
          [] state.level = "Senior" -> days_neglected > 1
          [] OTHER -> FALSE

base_rate(level) ==
    CASE level = "Baby" -> 20
      [] level = "Child" -> 40
      [] level = "Teen" -> 120
      [] level = "Adult" -> 300
      [] level = "Senior" -> 800
      [] level = "Ascended" -> 1000
      [] OTHER -> 0

\* accumulate_rewards: the new counters and whether a u64 operation overflowed
accumulate_rewards(state, blocks_elapsed) ==
    LET multiplied_rate == (base_rate(state.level) * state.care_multiplier) \div 100
        hours_elapsed == blocks_elapsed \div 6
        rewards == MulWrap(hours_elapsed, multiplied_rate)
    IN  [unclaimed_rewards |-> AddWrap(state.unclaimed_rewards, rewards),
         total_earned |-> AddWrap(state.total_earned, rewards),
         ovf64 |-> \/ MulOvf(multiplied_rate, hours_elapsed)
                   \/ AddOvf(state.unclaimed_rewards, rewards)
                   \/ AddOvf(state.total_earned, rewards)]

\* mutant of health_decay: Baby decays by the day, like Child
health_decay_BabyDaily(level, blocks_elapsed) ==
    CASE level = "Baby" -> AsU8(blocks_elapsed \div 144)
      [] level = "Child" -> AsU8(blocks_elapsed \div 144)
      [] level = "Teen" -> AsU8(blocks_elapsed \div 96)
      [] level = "Adult" -> AsU8(blocks_elapsed \div 72)
      [] level = "Senior" -> AsU8(blocks_elapsed \div 48)
      [] OTHER -> 0

health_decay(level, blocks_elapsed) ==
    CASE level = "Baby" -> AsU8(blocks_elapsed \div 288)
      [] level = "Child" -> AsU8(blocks_elapsed \div 144)
      [] level = "Teen" -> AsU8(blocks_elapsed \div 96)
      [] level = "Adult" -> AsU8(blocks_elapsed \div 72)
      [] level = "Senior" -> AsU8(blocks_elapsed \div 48)
      [] OTHER -> 0

\* mutant of IsDead: the dead check is missing
IsDead_Missing(state) == FALSE

\* `state.status == Status::Dead`
IsDead(state) == state.status = "Dead"

\* mutant of OwnerChecks: the key is not compared with state.owner
OwnerChecks_SkipsOwner(state, key, signed) ==
    IF ~signed THEN "MissingRequiredSignature"
    ELSE IF ~state.exists THEN "InvalidAccountData"
    ELSE "Ok"

\* The checks every owner instruction starts with, in the code's order:
\* signature, decoding, ownership.  "Ok" when all pass.
OwnerChecks(state, key, signed) ==
    IF ~signed THEN "MissingRequiredSignature"
    ELSE IF ~state.exists THEN "InvalidAccountData"
    ELSE IF state.owner # key THEN "IllegalOwner"
    ELSE "Ok"

----------------------------------------------------------------------------
(* Pet program: instruction processors                                     *)

process_initialize(key, signed, inscription_id) ==
    IF ~signed THEN Reject("MissingRequiredSignature")
    ELSE Done(
        [exists |-> TRUE, inscription_id |-> inscription_id, owner |-> key,
         level |-> "Baby", status |-> "Alive",
         health |-> 100, happiness |-> 100, hunger |-> 0,
         birth_block |-> INIT_BLOCK, last_fed_block |-> INIT_BLOCK,
         last_played_block |-> INIT_BLOCK, last_cleaned_block |-> INIT_BLOCK,
         last_update_block |-> INIT_BLOCK,
         care_mistakes |-> 0, perfect_care_days |-> 0, poop_count |-> 0,
         sick |-> FALSE, total_earned |-> 0, unclaimed_rewards |-> 0,
         care_multiplier |-> 100,
         evolution_eligible_block |-> AddWrap(INIT_BLOCK, 1008)],
        FALSE, AddOvf(INIT_BLOCK, 1008))

process_feed(state, key, signed) ==
    LET c == OwnerChecks(state, key, signed) IN
    IF c # "Ok" THEN Reject(c)
    ELSE IF IsDead(state) THEN Reject("Custom1")
    ELSE Done(
        [state EXCEPT !.hunger = SatSub(@, 50),
                      !.health = Min(U8AddWrap(@, 10), 100),
                      !.last_fed_block = get_current_block,
                      !.poop_count = IF is_poop_generated
                                     THEN Min(U8AddWrap(@, 1), 8) ELSE @],
        U8AddOvf(state.health, 10) \/ (is_poop_generated /\ U8AddOvf(state.poop_count, 1)),
        FALSE)

process_play(state, key, signed) ==
    LET c == OwnerChecks(state, key, signed) IN
    IF c # "Ok" THEN Reject(c)
    ELSE IF IsDead(state) THEN Reject("Custom1")
    ELSE Done(
        [state EXCEPT !.happiness = Min(U8AddWrap(@, 20), 100),
                      !.last_played_block = get_current_block],
        U8AddOvf(state.happiness, 20), FALSE)

process_clean(state, key, signed) ==
    LET c == OwnerChecks(state, key, signed) IN
    IF c # "Ok" THEN Reject(c)
    ELSE IF IsDead(state) THEN Reject("Custom1")
    ELSE Done(
        [state EXCEPT !.poop_count = 0,
                      !.health = Min(U8AddWrap(@, 10), 100),
                      !.last_cleaned_block = get_current_block],
        U8AddOvf(state.health, 10), FALSE)

process_medicine(state, key, signed) ==
    LET c == OwnerChecks(state, key, signed) IN
    IF c # "Ok" THEN Reject(c)
    ELSE IF IsDead(state) THEN Reject("Custom1")
    ELSE Done(
        [state EXCEPT !.sick = FALSE,
                      !.health = Min(U8AddWrap(@, 40), 100)],
        U8AddOvf(state.health, 40), FALSE)

\* mutant of process_update_state: health 0 alone does not kill
process_update_state_NoHealthDeath(state, current_block) ==
    IF ~state.exists THEN Reject("InvalidAccountData")
    ELSE IF IsDead(state) THEN Skip
    ELSE
    LET blocks_elapsed == SatSub(current_block, state.last_update_block) IN
    IF blocks_elapsed = 0 THEN Skip
    ELSE
    LET hunger_increase == AsU8(blocks_elapsed \div 144)
        hunger == Min(U8AddWrap(state.hunger, hunger_increase), 100)
        health == SatSub(state.health, health_decay(state.level, blocks_elapsed))
        happiness == SatSub(state.happiness, AsU8(blocks_elapsed \div 144))
        blocks_since_fed == SatSub(current_block, state.last_fed_block)
        mistake == blocks_since_fed > get_feed_threshold(state.level)
        care_mistakes == IF mistake THEN U8AddWrap(state.care_mistakes, 1)
                         ELSE state.care_mistakes
        dies == should_die(state, current_block)
        acc == accumulate_rewards(state, blocks_elapsed)
    IN  Done(
        [state EXCEPT !.hunger = hunger,
                      !.health = health,
                      !.happiness = happiness,
                      !.care_mistakes = care_mistakes,
                      !.status = IF dies THEN "Dead" ELSE @,
                      !.unclaimed_rewards = acc.unclaimed_rewards,
                      !.total_earned = acc.total_earned,
                      !.last_update_block = current_block],
        U8AddOvf(state.hunger, hunger_increase) \/ (mistake /\ U8AddOvf(state.care_mistakes, 1)),
        acc.ovf64)

process_update_state(state, current_block) ==
    IF ~state.exists THEN Reject("InvalidAccountData")
    ELSE IF IsDead(state) THEN Skip
    ELSE
    LET blocks_elapsed == SatSub(current_block, state.last_update_block) IN
    IF blocks_elapsed = 0 THEN Skip
    ELSE
    LET hunger_increase == AsU8(blocks_elapsed \div 144)
        hunger == Min(U8AddWrap(state.hunger, hunger_increase), 100)
        health == SatSub(state.health, health_decay(state.level, blocks_elapsed))
        happiness == SatSub(state.happiness, AsU8(blocks_elapsed \div 144))
        blocks_since_fed == SatSub(current_block, state.last_fed_block)
        mistake == blocks_since_fed > get_feed_threshold(state.level)
        care_mistakes == IF mistake THEN U8AddWrap(state.care_mistakes, 1)
                         ELSE state.care_mistakes
        dies == health = 0 \/ should_die(state, current_block)
        acc == accumulate_rewards(state, blocks_elapsed)
    IN  Done(
        [state EXCEPT !.hunger = hunger,
                      !.health = health,
                      !.happiness = happiness,
                      !.care_mistakes = care_mistakes,
                      !.status = IF dies THEN "Dead" ELSE @,
                      !.unclaimed_rewards = acc.unclaimed_rewards,
                      !.total_earned = acc.total_earned,
                      !.last_update_block = current_block],
        U8AddOvf(state.hunger, hunger_increase) \/ (mistake /\ U8AddOvf(state.care_mistakes, 1)),
        acc.ovf64)

\* mutant of EvolveTable: Baby evolves straight to Teen
EvolveTable_Skips(level) ==
    CASE level = "Baby" -> <<"Teen", 50, 4032>>
      [] level = "Child" -> <<"Teen", 250, 17280>>
      [] level = "Teen" -> <<"Adult", 1500, 17280>>
      [] level = "Adult" -> <<"Senior", 25000, 11520>>
      [] level = "Senior" -> <<"Ascended", 2000000, 0>>
      [] OTHER -> <<"none", 0, 0>>

\* the match of process_evolve: <<new level, reward, blocks to the next evolution>>
EvolveTable(level) ==
    CASE level = "Baby" -> <<"Child", 50, 4032>>
      [] level = "Child" -> <<"Teen", 250, 17280>>
      [] level = "Teen" -> <<"Adult", 1500, 17280>>
      [] level = "Adult" -> <<"Senior", 25000, 11520>>
      [] level = "Senior" -> <<"Ascended", 2000000, 0>>
      [] OTHER -> <<"none", 0, 0>>

\* mutant of NotEligible: the comparison is inverted
NotEligible_Inverted(state, current_block) == current_block > state.evolution_eligible_block

\* `current_block < state.evolution_eligible_block`
NotEligible(state, current_block) == current_block < state.evolution_eligible_block

process_evolve(state, key, signed) ==
    LET c == OwnerChecks(state, key, signed)
        current_block == get_current_block
        t == EvolveTable(state.level)
    IN
    IF c # "Ok" THEN Reject(c)
    ELSE IF NotEligible(state, current_block) THEN Reject("Custom2")
    ELSE IF t[1] = "none" THEN Reject("Custom3")
    ELSE Done(
        [state EXCEPT !.level = t[1],
                      !.evolution_eligible_block =
                          IF t[3] > 0 THEN AddWrap(current_block, t[3]) ELSE U64_MAX,
                      !.total_earned = AddWrap(@, t[2])],
        FALSE,
        (t[3] > 0 /\ AddOvf(current_block, t[3])) \/ AddOvf(state.total_earned, t[2]))

\* mutant of process_claim_rewards: the zero check is missing
process_claim_rewards_NoZeroCheck(state, key, signed) ==
    LET c == OwnerChecks(state, key, signed) IN
    IF c # "Ok" THEN Reject(c)
    ELSE LET amount == state.unclaimed_rewards
         IN  DoneLog([state EXCEPT !.unclaimed_rewards = 0], FALSE, FALSE, <<amount>>)

process_claim_rewards(state, key, signed) ==
    LET c == OwnerChecks(state, key, signed) IN
    IF c # "Ok" THEN Reject(c)
    ELSE IF state.unclaimed_rewards = 0 THEN Reject("Custom4")
    ELSE LET amount == state.unclaimed_rewards
         IN  DoneLog([state EXCEPT !.unclaimed_rewards = 0], FALSE, FALSE, <<amount>>)

\* mutant of process_transfer_ownership: the signer check is missing
process_transfer_ownership_Unsigned(state, oracle_signed, new_owner) ==
    IF ~state.exists THEN Reject("InvalidAccountData")
    ELSE Done([state EXCEPT !.owner = new_owner], FALSE, FALSE)

process_transfer_ownership(state, oracle_signed, new_owner) ==
    IF ~oracle_signed THEN Reject("MissingRequiredSignature")
    ELSE IF ~state.exists THEN Reject("InvalidAccountData")
    ELSE Done([state EXCEPT !.owner = new_owner], FALSE, FALSE)

----------------------------------------------------------------------------
(* Pet program: one call of each instruction, over its inputs              *)

InitializeCall ==
    \E k \in Keys, signed \in BOOLEAN, id \in Inscriptions :
        Apply("Initialize", <<k, signed, id>>, process_initialize(k, signed, id))

FeedCall ==
    \E k \in Keys, signed \in BOOLEAN :
        Apply("Feed", <<k, signed>>, process_feed(pet, k, signed))

PlayCall ==
    \E k \in Keys, signed \in BOOLEAN :
        Apply("Play", <<k, signed>>, process_play(pet, k, signed))

CleanCall ==
    \E k \in Keys, signed \in BOOLEAN :
        Apply("Clean", <<k, signed>>, process_clean(pet, k, signed))

MedicineCall ==
    \E k \in Keys, signed \in BOOLEAN :
        Apply("Medicine", <<k, signed>>, process_medicine(pet, k, signed))

UpdateStateCall ==
    \E b \in BlockInputs :
        Apply("UpdateState", <<b>>, process_update_state(pet, b))

EvolveCall ==
    \E k \in Keys, signed \in BOOLEAN :
        Apply("Evolve", <<k, signed>>, process_evolve(pet, k, signed))

ClaimRewardsCall ==
    \E k \in Keys, signed \in BOOLEAN :
        Apply("ClaimRewards", <<k, signed>>, process_claim_rewards(pet, k, signed))

TransferOwnershipCall ==
    \E signed \in BOOLEAN, new_owner \in Keys :
        Apply("TransferOwnership", <<signed, new_owner>>,
              process_transfer_ownership(pet, signed, new_owner))

----------------------------------------------------------------------------
(* Spec: the pet program from the empty state account                      *)

PetFrame == UNCHANGED <<overflow_checks, ledger, bal, tres, steps, height, oracleVars>>

Initialize == InitializeCall /\ PetFrame
Feed == FeedCall /\ PetFrame
Play == PlayCall /\ PetFrame
Clean == CleanCall /\ PetFrame
Medicine == MedicineCall /\ PetFrame
UpdateState == UpdateStateCall /\ PetFrame
Evolve == EvolveCall /\ PetFrame
ClaimRewards == ClaimRewardsCall /\ PetFrame
TransferOwnership == TransferOwnershipCall /\ PetFrame

PetStep ==
    \/ Initialize
    \/ Feed
    \/ Play
    \/ Clean
    \/ Medicine
    \/ UpdateState
    \/ Evolve
    \/ ClaimRewards
    \/ TransferOwnership

\* the state after construction: no account holds data yet
PetInit ==
    /\ overflow_checks \in BOOLEAN
    /\ pet = NoPet
    /\ res = NoOutcome
    /\ ledger = 0
    /\ bal = 0
    /\ tres = 0
    /\ steps = 0
    /\ height = CURRENT_BLOCK
    /\ OracleOff

Spec == PetInit /\ [][PetStep]_vars

----------------------------------------------------------------------------
(* SpecChain: the pet program from the empty state account while the chain *)
(* grows.  The block height is the clock of the host chain; every          *)
(* instruction runs at the height the chain has reached.  The processors   *)
(* are the same: what they take for the current block is what              *)
(* get_current_block returns.                                              *)

MaxBlocks == 4
BLOCKS_PER_WEEK == 1008

\* the chain grows by one block
NextBlock ==
    /\ height < CURRENT_BLOCK + MaxBlocks
    /\ height' = height + 1
    /\ UNCHANGED <<overflow_checks, pet, res, ledger, bal, tres, steps, oracleVars>>

\* the chain grows by a week of blocks
NextWeek ==
    /\ height = CURRENT_BLOCK
    /\ height' = height + BLOCKS_PER_WEEK
    /\ UNCHANGED <<overflow_checks, pet, res, ledger, bal, tres, steps, oracleVars>>

ChainStep ==
    \/ PetStep
    \/ NextBlock
    \/ NextWeek

SpecChain == PetInit /\ [][ChainStep]_vars

----------------------------------------------------------------------------
(* SpecStored: the processors as functions of the stored pet state.  The   *)
(* state account holds any decodable pet state out of StoredPets, and at   *)
(* most MaxStoredCalls instructions are applied to it.                     *)

MaxStoredCalls == 2

StoredCases ==
    {[status |-> "Alive", health |-> 100, hunger |-> 0, care_mistakes |-> 0,
      poop_count |-> 0, sick |-> FALSE, total_earned |-> 700,
      unclaimed_rewards |-> 120],
     [status |-> "Alive", health |-> 3, hunger |-> 100, care_mistakes |-> 255,
      poop_count |-> 8, sick |-> TRUE, total_earned |-> U64_MAX,
      unclaimed_rewards |-> 0],
     [status |-> "Dead", health |-> 0, hunger |-> 100, care_mistakes |-> 7,
      poop_count |-> 8, sick |-> TRUE, total_earned |-> 700,
      unclaimed_rewards |-> 120]}

StoredPets ==
    {[exists |-> TRUE, inscription_id |-> "insc1", owner |-> "k1",
      level |-> l, status |-> c.status,
      health |-> c.health, happiness |-> 100, hunger |-> c.hunger,
      birth_block |-> INIT_BLOCK, last_fed_block |-> INIT_BLOCK,
      last_played_block |-> INIT_BLOCK, last_cleaned_block |-> INIT_BLOCK,
      last_update_block |-> INIT_BLOCK,
      care_mistakes |-> c.care_mistakes, perfect_care_days |-> 0,
      poop_count |-> c.poop_count, sick |-> c.sick,
      total_earned |-> c.total_earned, unclaimed_rewards |-> c.unclaimed_rewards,
      care_multiplier |-> 100,
      evolution_eligible_block |-> b] :
        l \in Levels, c \in StoredCases,
        b \in {0, CURRENT_BLOCK, CURRENT_BLOCK + 1008, U64_MAX}}

StoredFrame ==
    /\ steps < MaxStoredCalls
    /\ steps' = steps + 1
    /\ UNCHANGED <<overflow_checks, ledger, bal, tres, height, oracleVars>>

StoredInitialize == InitializeCall /\ StoredFrame
StoredFeed == FeedCall /\ StoredFrame
StoredPlay == PlayCall /\ StoredFrame
StoredClean == CleanCall /\ StoredFrame
StoredMedicine == MedicineCall /\ StoredFrame
StoredUpdateState == UpdateStateCall /\ StoredFrame
StoredEvolve == EvolveCall /\ StoredFrame
StoredClaimRewards == ClaimRewardsCall /\ StoredFrame
StoredTransferOwnership == TransferOwnershipCall /\ StoredFrame

StoredStep ==
    \/ StoredInitialize
    \/ StoredFeed
    \/ StoredPlay
    \/ StoredClean
    \/ StoredMedicine
    \/ StoredUpdateState
    \/ StoredEvolve
    \/ StoredClaimRewards
    \/ StoredTransferOwnership

StoredInit ==
    /\ overflow_checks \in BOOLEAN
    /\ pet \in StoredPets
    /\ res = NoOutcome
    /\ ledger = 0
    /\ bal = 0
    /\ tres = 0
    /\ steps = 0
    /\ height = CURRENT_BLOCK
    /\ OracleOff

SpecStored == StoredInit /\ [][StoredStep]_vars

----------------------------------------------------------------------------
(* Token program: constants, in units of 10^10 base units                  *)

MAX_SUPPLY == 100000000
MILESTONE_POOL == 30000000
EARNING_POOL == 30000000

BUY_FEE_BPS == 50
SELL_FEE_BPS == 75
BPS_DENOMINATOR == 10000

BABY_TO_CHILD_REWARD == 5
CHILD_TO_TEEN_REWARD == 25
TEEN_TO_ADULT_REWARD == 150
ADULT_TO_SENIOR_REWARD == 2500
SENIOR_TO_ASCENSION_REWARD == 200000

\* simulate_buyback: tokens per unit of btc_amount
BUYBACK_RATE == 10000

MilestoneTypes ==
    {"BabyToChild", "ChildToTeen", "TeenToAdult", "AdultToSenior", "SeniorToAscension"}

\* the balance accounts; they exist before the ledger does
Accounts == {"a1", "a2", "a3"}
AccountOwner(a) == IF a = "a2" THEN "k2" ELSE "k1"

\* account data that does not decode as TokenState
NoLedger ==
    [exists |-> FALSE, name |-> "", symbol |-> "", decimals |-> 0,
     total_supply |-> 0, circulating_supply |-> 0, max_supply |-> 0,
     milestone_pool |-> 0, earning_pool |-> 0, milestone_used |-> 0,
     earning_used |-> 0, fee_collection_wallet |-> "", total_fees_collected |-> 0,
     total_burned |-> 0, mint_authority |-> "", fee_authority |-> ""]

\* What a token processor returns.  ovf tells whether a u64 operation
\* executed before the return overflowed; log holds the amounts the processor
\* computed on the way (the values of its msg! line).
TReject(code, ovf, log) ==
    [code |-> code, emit |-> FALSE, ledger |-> NoLedger, bal |-> <<>>, ovf |-> ovf,
     log |-> log]
TDone(l, b, ovf, log) ==
    [code |-> "Ok", emit |-> TRUE, ledger |-> l, bal |-> b, ovf |-> ovf, log |-> log]

TOutcome(op, args, code, emitted, ovf, log) ==
    [op |-> op, args |-> args, code |-> code, emitted |-> emitted, ovf |-> ovf,
     log |-> log]

\* The effect of a token instruction whose processor returned r.  The state
\* transitions of one instruction are committed together, or not at all.
TApply(op, args, r) ==
    IF overflow_checks /\ r.ovf
    THEN /\ UNCHANGED <<ledger, bal>>
         /\ tres' = TOutcome(op, args, "Panic", FALSE, TRUE, r.log)
    ELSE /\ ledger' = IF r.emit THEN r.ledger ELSE ledger
         /\ bal' = IF r.emit THEN r.bal ELSE bal
         /\ tres' = TOutcome(op, args, r.code, r.emit, r.ovf, r.log)

----------------------------------------------------------------------------
(* Token program: instruction processors                                   *)

token_process_initialize(authority, signed, fee_wallet, initial_supply, b) ==
    IF ~signed THEN TReject("MissingRequiredSignature", FALSE, <<>>)
    ELSE TDone(
        [exists |-> TRUE, name |-> "Gotchi", symbol |-> "GOTCHI", decimals |-> 9,
         total_supply |-> initial_supply,
         circulating_supply |-> initial_supply,
         max_supply |-> MAX_SUPPLY,
         milestone_pool |-> MILESTONE_POOL,
         earning_pool |-> EARNING_POOL,
         milestone_used |-> 0,
         earning_used |-> 0,
         fee_collection_wallet |-> fee_wallet,
         total_fees_collected |-> 0,
         total_burned |-> 0,
         mint_authority |-> authority,
         fee_authority |-> authority],
        b, FALSE, <<>>)

\* `(amount * fee_bps as u64) / 10_000` and `amount - fee`
TransferFee(amount, is_buy) ==
    LET fee_bps == IF is_buy THEN BUY_FEE_BPS ELSE SELL_FEE_BPS
        fee == MulWrap(amount, fee_bps) \div BPS_DENOMINATOR
    IN  [fee |-> fee,
         net |-> SubWrap(amount, fee),
         ovf |-> MulOvf(amount, fee_bps) \/ SubOvf(amount, fee)]

\* `source_balance.balance < amount`
InsufficientFunds(balance, amount) == balance < amount

\* The writes of one instruction, in the order of its add_state_transition
\* calls; a later write to the same account replaces an earlier one.
RECURSIVE WriteAll(_, _)
WriteAll(b, writes) ==
    IF writes = <<>> THEN b
    ELSE WriteAll([b EXCEPT ![writes[1][1]].balance = writes[1][2]], Tail(writes))

process_transfer(l, b, amount, is_buy, source, dest, owner_key, signed, fee_account) ==
    IF ~signed THEN TReject("MissingRequiredSignature", FALSE, <<>>)
    ELSE
    LET f == TransferFee(amount, is_buy) IN
    IF ~l.exists THEN TReject("InvalidAccountData", f.ovf, f)
    ELSE IF b[source].owner # owner_key THEN TReject("IllegalOwner", f.ovf, f)
    ELSE IF InsufficientFunds(b[source].balance, amount) THEN TReject("InsufficientFunds", f.ovf, f)
    ELSE TDone(
        [l EXCEPT !.total_fees_collected = AddWrap(@, f.fee)],
        WriteAll(b, << <<source, SubWrap(b[source].balance, amount)>>,
                       <<dest, AddWrap(b[dest].balance, f.net)>>,
                       <<fee_account, AddWrap(b[fee_account].balance, f.fee)>> >>),
        \/ f.ovf
        \/ AddOvf(b[dest].balance, f.net)
        \/ AddOvf(b[fee_account].balance, f.fee)
        \/ AddOvf(l.total_fees_collected, f.fee),
        f)

process_burn(l, b, amount, source, owner_key, signed) ==
    IF ~signed THEN TReject("MissingRequiredSignature", FALSE, <<>>)
    ELSE IF ~l.exists THEN TReject("InvalidAccountData", FALSE, <<>>)
    ELSE IF b[source].owner # owner_key THEN TReject("IllegalOwner", FALSE, <<>>)
    ELSE IF InsufficientFunds(b[source].balance, amount) THEN TReject("InsufficientFunds", FALSE, <<>>)
    ELSE TDone(
        [l EXCEPT !.total_burned = AddWrap(@, amount),
                  !.circulating_supply = SubWrap(@, amount)],
        WriteAll(b, << <<source, SubWrap(b[source].balance, amount)>> >>),
        AddOvf(l.total_burned, amount) \/ SubOvf(l.circulating_supply, amount),
        <<amount>>)

base_reward(milestone_type) ==
    CASE milestone_type = "BabyToChild" -> BABY_TO_CHILD_REWARD
      [] milestone_type = "ChildToTeen" -> CHILD_TO_TEEN_REWARD
      [] milestone_type = "TeenToAdult" -> TEEN_TO_ADULT_REWARD
      [] milestone_type = "AdultToSenior" -> ADULT_TO_SENIOR_REWARD
      [] milestone_type = "SeniorToAscension" -> SENIOR_TO_ASCENSION_REWARD

\* the amount process_mint_milestone mints, and the overflows of computing it
MilestoneAmount(l, milestone_type) ==
    LET reward == base_reward(milestone_type)
        pool_remaining == SubWrap(MILESTONE_POOL, l.milestone_used)
    IN  [amount |-> IF AddWrap(l.milestone_used, reward) > MILESTONE_POOL
                    THEN pool_remaining ELSE reward,
         ovf |-> SubOvf(MILESTONE_POOL, l.milestone_used)
                 \/ AddOvf(l.milestone_used, reward)]

\* mutant of process_mint_milestone: the key is not compared with mint_authority
process_mint_milestone_AnyKey(l, b, amount, milestone_type, dest, authority, signed) ==
    IF ~signed THEN TReject("MissingRequiredSignature", FALSE, <<>>)
    ELSE IF ~l.exists THEN TReject("InvalidAccountData", FALSE, <<>>)
    ELSE
    LET m == MilestoneAmount(l, milestone_type)
        final_amount == m.amount
    IN
    IF final_amount = 0 THEN TReject("Custom2", m.ovf, <<final_amount>>)
    ELSE TDone(
        [l EXCEPT !.milestone_used = AddWrap(@, final_amount),
                  !.total_supply = AddWrap(@, final_amount),
                  !.circulating_supply = AddWrap(@, final_amount)],
        WriteAll(b, << <<dest, AddWrap(b[dest].balance, final_amount)>> >>),
        \/ m.ovf
        \/ AddOvf(b[dest].balance, final_amount)
        \/ AddOvf(l.milestone_used, final_amount)
        \/ AddOvf(l.total_supply, final_amount)
        \/ AddOvf(l.circulating_supply, final_amount),
        <<final_amount>>)

\* `_amount` is not read
process_mint_milestone(l, b, amount, milestone_type, dest, authority, signed) ==
    IF ~signed THEN TReject("MissingRequiredSignature", FALSE, <<>>)
    ELSE IF ~l.exists THEN TReject("InvalidAccountData", FALSE, <<>>)
    ELSE IF l.mint_authority # authority THEN TReject("IllegalOwner", FALSE, <<>>)
    ELSE
    LET m == MilestoneAmount(l, milestone_type)
        final_amount == m.amount
    IN
    IF final_amount = 0 THEN TReject("Custom2", m.ovf, <<final_amount>>)
    ELSE TDone(
        [l EXCEPT !.milestone_used = AddWrap(@, final_amount),
                  !.total_supply = AddWrap(@, final_amount),
                  !.circulating_supply = AddWrap(@, final_amount)],
        WriteAll(b, << <<dest, AddWrap(b[dest].balance, final_amount)>> >>),
        \/ m.ovf
        \/ AddOvf(b[dest].balance, final_amount)
        \/ AddOvf(l.milestone_used, final_amount)
        \/ AddOvf(l.total_supply, final_amount)
        \/ AddOvf(l.circulating_supply, final_amount),
        <<final_amount>>)

\* mutant of EarningPoolExhausted: the pool check is missing
EarningPoolExhausted_Missing(l, amount) == FALSE

\* `state.earning_used + amount > EARNING_POOL`
EarningPoolExhausted(l, amount) == AddWrap(l.earning_used, amount) > EARNING_POOL

process_mint_earning(l, b, amount, dest, authority, signed) ==
    IF ~signed THEN TReject("MissingRequiredSignature", FALSE, <<>>)
    ELSE IF ~l.exists THEN TReject("InvalidAccountData", FALSE, <<>>)
    ELSE IF l.mint_authority # authority THEN TReject("IllegalOwner", FALSE, <<>>)
    ELSE IF EarningPoolExhausted(l, amount)
         THEN TReject("Custom3", AddOvf(l.earning_used, amount), <<>>)
    ELSE TDone(
        [l EXCEPT !.earning_used = AddWrap(@, amount),
                  !.total_supply = AddWrap(@, amount),
                  !.circulating_supply = AddWrap(@, amount)],
        WriteAll(b, << <<dest, AddWrap(b[dest].balance, amount)>> >>),
        \/ AddOvf(l.earning_used, amount)
        \/ AddOvf(b[dest].balance, amount)
        \/ AddOvf(l.total_supply, amount)
        \/ AddOvf(l.circulating_supply, amount),
        <<amount>>)

simulate_buyback(btc_amount) ==
    [tokens |-> MulWrap(btc_amount, BUYBACK_RATE), ovf |-> MulOvf(btc_amount, BUYBACK_RATE)]

process_buyback_and_burn(l, b, btc_amount, fee_account, authority, signed) ==
    IF ~signed THEN TReject("MissingRequiredSignature", FALSE, <<>>)
    ELSE IF ~l.exists THEN TReject("InvalidAccountData", FALSE, <<>>)
    ELSE IF l.fee_authority # authority THEN TReject("IllegalOwner", FALSE, <<>>)
    ELSE
    LET s == simulate_buyback(btc_amount)
        tokens_bought == s.tokens
    IN
    IF InsufficientFunds(b[fee_account].balance, tokens_bought)
    THEN TReject("InsufficientFunds", s.ovf, <<tokens_bought>>)
    ELSE TDone(
        [l EXCEPT !.total_burned = AddWrap(@, tokens_bought),
                  !.circulating_supply = SubWrap(@, tokens_bought)],
        WriteAll(b, << <<fee_account, SubWrap(b[fee_account].balance, tokens_bought)>> >>),
        \/ s.ovf
        \/ AddOvf(l.total_burned, tokens_bought)
        \/ SubOvf(l.circulating_supply, tokens_bought),
        <<tokens_bought>>)

----------------------------------------------------------------------------
(* SpecToken: the token program.  The balance accounts pre-exist with any  *)
(* balances; the token state account is empty, or holds a ledger late in   *)
(* its life (both pools nearly used).  At most MaxTokenCalls instructions  *)
(* are issued.                                                             *)

MaxTokenCalls == 2

AmountInputs == {0, 200, EARNING_POOL, U64_MAX}
SupplyInputs == {0, 1000, MAX_SUPPLY, MAX_SUPPLY + 1}
BtcInputs == {0, 1, U64_MAX}

\* the signer account of a call: its key and its is_signer flag
Signers == {<<"k1", TRUE>>, <<"k2", TRUE>>, <<"k1", FALSE>>}

\* <<source, dest, fee account>> of a Transfer: distinct accounts, and every
\* way two of the three can be the same account
TransferAccounts ==
    {<<"a1", "a2", "a3">>, <<"a2", "a1", "a3">>,
     <<"a1", "a1", "a3">>, <<"a1", "a2", "a1">>, <<"a1", "a2", "a2">>}

BalanceCases ==
    {[a \in Accounts |-> IF a = "a1" THEN 1000 ELSE IF a = "a2" THEN 20000 ELSE 0],
     [a \in Accounts |-> IF a = "a1" THEN 40000000 ELSE IF a = "a2" THEN 20000 ELSE 5]}

\* a ledger after Initialize with initial_supply 0 and many mints
LateLedger ==
    [exists |-> TRUE, name |-> "Gotchi", symbol |-> "GOTCHI", decimals |-> 9,
     total_supply |-> (MILESTONE_POOL - 10) + (EARNING_POOL - 200),
     circulating_supply |-> (MILESTONE_POOL - 10) + (EARNING_POOL - 200),
     max_supply |-> MAX_SUPPLY,
     milestone_pool |-> MILESTONE_POOL,
     earning_pool |-> EARNING_POOL,
     milestone_used |-> MILESTONE_POOL - 10,
     earning_used |-> EARNING_POOL - 200,
     fee_collection_wallet |-> "a3",
     total_fees_collected |-> 0,
     total_burned |-> 0,
     mint_authority |-> "k1",
     fee_authority |-> "k1"]

TokenFrame ==
    /\ steps < MaxTokenCalls
    /\ steps' = steps + 1
    /\ UNCHANGED <<overflow_checks, pet, res, height, oracleVars>>

TokenInitialize ==
    /\ TokenFrame
    /\ \E sg \in Signers, w \in {"a1", "a3"}, supply \in SupplyInputs :
          TApply("Initialize", <<sg, w, supply>>,
                 token_process_initialize(sg[1], sg[2], w, supply, bal))

Transfer ==
    /\ TokenFrame
    /\ \E amount \in AmountInputs, is_buy \in BOOLEAN, t \in TransferAccounts,
          sg \in Signers :
          TApply("Transfer", <<sg, amount, is_buy, t>>,
                 process_transfer(ledger, bal, amount, is_buy, t[1], t[2], sg[1], sg[2],
                                  t[3]))

Burn ==
    /\ TokenFrame
    /\ \E amount \in AmountInputs, source \in Accounts, sg \in Signers :
          TApply("Burn", <<sg, amount, source>>,
                 process_burn(ledger, bal, amount, source, sg[1], sg[2]))

MintMilestone ==
    /\ TokenFrame
    /\ \E amount \in AmountInputs, t \in MilestoneTypes, dest \in Accounts,
          sg \in Signers :
          TApply("MintMilestone", <<sg, t, dest, amount>>,
                 process_mint_milestone(ledger, bal, amount, t, dest, sg[1], sg[2]))

MintEarning ==
    /\ TokenFrame
    /\ \E amount \in AmountInputs, dest \in Accounts, sg \in Signers :
          TApply("MintEarning", <<sg, amount, dest>>,
                 process_mint_earning(ledger, bal, amount, dest, sg[1], sg[2]))

BuybackAndBurn ==
    /\ TokenFrame
    /\ \E btc_amount \in BtcInputs, fee_account \in Accounts, sg \in Signers :
          TApply("BuybackAndBurn", <<sg, btc_amount, fee_account>>,
                 process_buyback_and_burn(ledger, bal, btc_amount, fee_account,
                                          sg[1], sg[2]))

TokenStep ==
    \/ TokenInitialize
    \/ Transfer
    \/ Burn
    \/ MintMilestone
    \/ MintEarning
    \/ BuybackAndBurn

TokenInit ==
    /\ overflow_checks \in BOOLEAN
    /\ pet = NoPet
    /\ res = NoOutcome
    /\ ledger \in {NoLedger, LateLedger}
    /\ bal \in {[a \in Accounts |-> [owner |-> AccountOwner(a), balance |-> c[a]]] :
                    c \in BalanceCases}
    /\ tres = TOutcome("none", <<>>, "Ok", FALSE, FALSE, <<>>)
    /\ steps = 0
    /\ height = CURRENT_BLOCK
    /\ OracleOff

SpecToken == TokenInit /\ [][TokenStep]_vars

----------------------------------------------------------------------------
(* Token program: the dynamic burn helper.  Its operands are exact base    *)
(* units (9 decimals), so they are kept as little-endian sequences of      *)
(* eight-bit limbs: sixteen limbs hold any product of two u64 operands,    *)
(* and the low eight limbs are the u64 the machine keeps.                  *)

LIMB == 256
WideLen == 16
WordLen == 8

\* limb i of a natural number below 2^31
Digit(n, i) ==
    IF i = 1 THEN n % LIMB
    ELSE IF i = 2 THEN (n \div LIMB) % LIMB
    ELSE IF i = 3 THEN (n \div (LIMB * LIMB)) % LIMB
    ELSE IF i = 4 THEN n \div (LIMB * LIMB * LIMB)
    ELSE 0

Wide(n) == [i \in 1..WideLen |-> Digit(n, i)]

\* the limbs of the number whose columns are cols, carries propagated
RECURSIVE Carry(_, _, _)
Carry(cols, i, carry) ==
    IF i > WideLen THEN <<>>
    ELSE <<(cols[i] + carry) % LIMB>>
             \o Carry(cols, i + 1, (cols[i] + carry) \div LIMB)

WideAdd(a, b) == Carry([i \in 1..WideLen |-> a[i] + b[i]], 1, 0)

\* the exact product of a wide value and a natural number below 2^31
WideMul(a, n) ==
    Carry([k \in 1..WideLen |->
              (IF k >= 1 THEN a[k] * Digit(n, 1) ELSE 0)
            + (IF k >= 2 THEN a[k - 1] * Digit(n, 2) ELSE 0)
            + (IF k >= 3 THEN a[k - 2] * Digit(n, 3) ELSE 0)
            + (IF k >= 4 THEN a[k - 3] * Digit(n, 4) ELSE 0)], 1, 0)

RECURSIVE WideLeqFrom(_, _, _)
WideLeqFrom(a, b, i) ==
    IF i = 0 THEN TRUE
    ELSE IF a[i] # b[i] THEN a[i] < b[i]
    ELSE WideLeqFrom(a, b, i - 1)

WideLeq(a, b) == WideLeqFrom(a, b, WideLen)

\* a u64 holds the low four limbs
Low64(a) == [i \in 1..WideLen |-> IF i <= WordLen THEN a[i] ELSE 0]
Overflows64(a) == \E i \in (WordLen + 1)..WideLen : a[i] # 0

\* the decimal literal hi * 10^9 + lo
Units(hi, lo) == WideAdd(WideMul(Wide(1000000000), hi), Wide(lo))

\* `let normalization = 1_000_000_000_000_000_000;`
NORMALIZATION == Units(1000000000, 0)

\* u64 `/` by the normalization: a u64 is below 19 * 10^18
MaxQuotient == 18
DivNormalization(x) ==
    CHOOSE q \in 0..MaxQuotient :
        /\ WideLeq(WideMul(NORMALIZATION, q), x)
        /\ ~WideLeq(WideMul(NORMALIZATION, q + 1), x)

BurnActions ==
    {"feed_meal", "feed_snack", "play_game", "medicine", "discipline", "clean"}

burn_base(action) ==
    CASE action = "feed_meal" -> 1000000000
      [] action = "feed_snack" -> 600000000
      [] action = "play_game" -> 400000000
      [] action = "medicine" -> 2000000000
      [] action = "discipline" -> 80000000
      [] action = "clean" -> 80000000
      [] OTHER -> 0

\* `(base * circulating_supply) / normalization`
calculate_dynamic_burn(action, circulating_supply) ==
    LET product == WideMul(circulating_supply, burn_base(action))
    IN  [value |-> DivNormalization(Low64(product)),
         ovf |-> Overflows64(product)]

----------------------------------------------------------------------------
(* The dynamic burn helper applied to chosen supplies                      *)

MaxBurnCalls == 2

\* circulating supplies in base units, as <<hi, lo>> of hi * 10^9 + lo: none,
\* one unit, one token, the supplies either side of the largest whose product
\* with the medicine and with the feed_meal base fits a u64, ten million
\* tokens, and the maximum supply of one billion tokens
BurnSupplies ==
    {<<0, 0>>, <<0, 1>>, <<1, 0>>,
     <<9, 223372036>>, <<9, 223372037>>,
     <<18, 446744073>>, <<18, 446744074>>,
     <<10000000, 0>>, <<1000000000, 0>>}

BurnActionInputs == BurnActions \cup {"sing"}

DynamicBurn ==
    /\ steps < MaxBurnCalls
    /\ steps' = steps + 1
    /\ \E action \in BurnActionInputs, c \in BurnSupplies :
          LET r == calculate_dynamic_burn(action, Units(c[1], c[2]))
          IN  tres' = IF overflow_checks /\ r.ovf
                      THEN TOutcome("calculate_dynamic_burn", <<action, c>>,
                                    "Panic", FALSE, TRUE, <<>>)
                      ELSE TOutcome("calculate_dynamic_burn", <<action, c>>,
                                    "Ok", FALSE, r.ovf, <<r.value>>)
    /\ UNCHANGED <<overflow_checks, pet, res, ledger, bal, height, oracleVars>>

BurnStep == DynamicBurn

BurnInit ==
    /\ overflow_checks \in BOOLEAN
    /\ pet = NoPet
    /\ res = NoOutcome
    /\ ledger = NoLedger
    /\ bal = [a \in Accounts |-> [owner |-> AccountOwner(a), balance |-> 0]]
    /\ tres = TOutcome("none", <<>>, "Ok", FALSE, FALSE, <<>>)
    /\ steps = 0
    /\ height = CURRENT_BLOCK
    /\ OracleOff

SpecBurn == BurnInit /\ [][BurnStep]_vars

----------------------------------------------------------------------------
(* Claims about the pet program                                            *)

CareOps == {"Feed", "Play", "Clean", "Medicine", "UpdateState"}
CareFields(p) == <<p.health, p.happiness, p.hunger, p.care_mistakes, p.poop_count>>
ByOwner(p, r) == r.args = <<p.owner, TRUE>>

\* The ranges of the vitals and of poop_count in every emitted state.
VitalsInRange ==
    pet.exists =>
        /\ pet.health \in 0..100
        /\ pet.happiness \in 0..100
        /\ pet.hunger \in 0..100
        /\ pet.poop_count \in 0..8

\* C1: after any sequence of pet instructions health, happiness and hunger
\* are in [0,100] and poop_count is in [0,8] in every emitted state, and no
\* u8 operation of the code overflowed on the way.
C1_RangesWithoutU8Overflow == VitalsInRange /\ ~res.ovf8

\* C2: from a Dead pet no Feed, Play, Clean, Medicine or UpdateState call,
\* with any signer and any current_block, changes health, happiness, hunger,
\* care_mistakes or poop_count; the care actions fail, UpdateState returns
\* success, and neither emits a state transition.
C2_DeadPetIsFrozen ==
    [][(pet.exists /\ pet.status = "Dead" /\ res'.op \in CareOps) =>
          /\ CareFields(pet') = CareFields(pet)
          /\ ~res'.emitted
          /\ (res'.op = "UpdateState") = (res'.code = "Ok")]_vars

\* C2 witness: an UpdateState was issued for a pet that is Dead and returned
\* success without emitting anything.
C2_Witness ==
    /\ pet.exists /\ pet.status = "Dead"
    /\ res.op = "UpdateState" /\ res.code = "Ok" /\ ~res.emitted

\* C3: Dead is terminal for a state account: once Status is Dead no pet
\* instruction, a further Initialize included, makes it Alive again.
C3_DeadIsTerminal ==
    [][(pet.exists /\ pet.status = "Dead") => pet'.status = "Dead"]_vars

\* C4: no Evolve call lowers the level index, and every successful Evolve
\* starts from Baby, Child, Teen, Adult or Senior and moves the level to the
\* next one of the chain Baby, Child, Teen, Adult, Senior, Ascended.
C4_EvolveOneStepForward ==
    [][(pet.exists /\ res'.op = "Evolve") =>
          /\ LevelIndex(pet'.level) >= LevelIndex(pet.level)
          /\ res'.emitted =>
                /\ pet.level \in {"Baby", "Child", "Teen", "Adult", "Senior"}
                /\ LevelIndex(pet'.level) = LevelIndex(pet.level) + 1]_vars

\* C4 witness: a successful Evolve has just moved a pet to Adult.
C4_Witness ==
    /\ res.op = "Evolve" /\ res.emitted
    /\ pet.level = "Adult"

\* C5: an Evolve by the owner while the current block height is below
\* evolution_eligible_block fails with Custom(2) and emits nothing, at every
\* level.
C5_EvolveTooEarlyFails ==
    [][(/\ pet.exists
        /\ res'.op = "Evolve"
        /\ ByOwner(pet, res')
        /\ get_current_block < pet.evolution_eligible_block) =>
          /\ res'.code = "Custom2"
          /\ ~res'.emitted
          /\ pet' = pet]_vars

\* C5 witness: the owner's Evolve on a Teen pet that is not yet eligible has
\* just failed with Custom(2).
C5_Witness ==
    /\ res.op = "Evolve" /\ res.code = "Custom2" /\ ByOwner(pet, res)
    /\ pet.level = "Teen"
    /\ get_current_block < pet.evolution_eligible_block

----------------------------------------------------------------------------
(* Claims about the token program                                          *)

\* floor(amount * bps / 10000) as a number, computed without a large
\* intermediate product
ExactFee(amount, bps) ==
    (amount \div BPS_DENOMINATOR) * bps + ((amount % BPS_DENOMINATOR) * bps) \div BPS_DENOMINATOR

\* the inputs of the Transfer recorded in an outcome
TransferSigned(o) == o.args[1][2]
TransferKey(o) == o.args[1][1]
TransferAmount(o) == o.args[2]
TransferBps(o) == IF o.args[3] THEN 50 ELSE 75
TransferSource(o) == o.args[4][1]
TransferDest(o) == o.args[4][2]
TransferFeeAccount(o) == o.args[4][3]

\* C7: in every emitted ledger state milestone_used <= milestone_pool and
\* earning_used <= earning_pool.
C7_PoolsNeverOverused ==
    ledger.exists =>
        /\ ledger.milestone_used <= ledger.milestone_pool
        /\ ledger.earning_used <= ledger.earning_pool

\* C7 witness: a MintMilestone that was cut to the rest of the pool has just
\* left milestone_used equal to milestone_pool.
C7_Witness ==
    /\ tres.op = "MintMilestone" /\ tres.emitted
    /\ tres.log[1] < base_reward(tres.args[2])
    /\ ledger.milestone_used = ledger.milestone_pool

\* C8: in every ledger state emitted by Initialize, MintMilestone or
\* MintEarning, circulating_supply <= max_supply.
C8_CirculatingWithinMaxSupply ==
    (tres.op \in {"Initialize", "MintMilestone", "MintEarning"} /\ tres.emitted) =>
        ledger.circulating_supply <= ledger.max_supply

\* C9: every Transfer that gets to compute its fee computes
\* fee = floor(amount * 50 / 10000) for a buy and floor(amount * 75 / 10000)
\* otherwise, net = amount - fee, fee + net = amount, and the product
\* amount * fee_bps does not overflow.
C9_TransferFeeExact ==
    [][(tres'.op = "Transfer" /\ TransferSigned(tres')) =>
          LET amount == TransferAmount(tres')
              fee == ExactFee(amount, TransferBps(tres'))
          IN  /\ ~tres'.log.ovf
              /\ tres'.log.fee = fee
              /\ tres'.log.net = amount - fee
              /\ tres'.log.net = amount - tres'.log.fee]_vars

\* C10: a Transfer between three distinct accounts, on an initialized ledger:
\* signed by the source's owner with source.balance >= amount it debits
\* source by amount, credits dest by net and the fee account by fee, and adds
\* fee to total_fees_collected; without the signature, or signed by another
\* key, it fails with an authorization error; with source.balance < amount it
\* fails with InsufficientFunds.
C10_TransferEffect ==
    [][(/\ tres'.op = "Transfer"
        /\ ledger.exists
        /\ Cardinality({TransferSource(tres'), TransferDest(tres'),
                        TransferFeeAccount(tres')}) = 3) =>
          LET amount == TransferAmount(tres')
              fee == ExactFee(amount, TransferBps(tres'))
              net == amount - fee
              src == TransferSource(tres')
              dst == TransferDest(tres')
              fa == TransferFeeAccount(tres')
          IN  IF ~TransferSigned(tres') \/ bal[src].owner # TransferKey(tres')
              THEN tres'.code \in {"MissingRequiredSignature", "IllegalOwner"}
              ELSE IF bal[src].balance < amount
              THEN tres'.code = "InsufficientFunds"
              ELSE /\ tres'.code = "Ok"
                   /\ bal[src].balance - bal'[src].balance = amount
                   /\ bal'[dst].balance - bal[dst].balance = net
                   /\ bal'[fa].balance - bal[fa].balance = fee
                   /\ ledger'.total_fees_collected - ledger.total_fees_collected = fee]_vars

----------------------------------------------------------------------------
(* Claims about failure and atomicity                                      *)

OwnerOps == {"Feed", "Play", "Clean", "Medicine", "Evolve", "ClaimRewards"}

\* A precondition of the pet instruction recorded in outcome r does not hold
\* in pet state p: missing signer, undecodable account data, wrong owner,
\* dead pet, ineligible evolution.
PetPreconditionFails(p, r) ==
    \/ r.op = "Initialize" /\ ~r.args[2]
    \/ r.op = "TransferOwnership" /\ (~r.args[1] \/ ~p.exists)
    \/ r.op = "UpdateState" /\ ~p.exists
    \/ r.op \in OwnerOps /\ (~r.args[2] \/ ~p.exists \/ p.owner # r.args[1])
    \/ r.op \in {"Feed", "Play", "Clean", "Medicine"} /\ p.status = "Dead"
    \/ r.op = "Evolve" /\ get_current_block < p.evolution_eligible_block

\* A precondition of the token instruction recorded in outcome r does not
\* hold for ledger l and balances b: missing signer, undecodable ledger,
\* wrong owner or authority, insufficient balance, pool exhausted -- the
\* amounts compared as numbers.
TokenPreconditionFails(l, b, r) ==
    /\ r.op # "none"
    /\ \/ ~r.args[1][2]
       \/ r.op # "Initialize" /\ ~l.exists
       \/ r.op = "Transfer" /\ \/ b[r.args[4][1]].owner # r.args[1][1]
                               \/ b[r.args[4][1]].balance < r.args[2]
       \/ r.op = "Burn" /\ \/ b[r.args[3]].owner # r.args[1][1]
                           \/ b[r.args[3]].balance < r.args[2]
       \/ r.op \in {"MintMilestone", "MintEarning"} /\ l.mint_authority # r.args[1][1]
       \/ r.op = "MintMilestone" /\ l.milestone_used >= l.milestone_pool
       \/ r.op = "MintEarning" /\ \/ l.earning_used > l.earning_pool
                                  \/ r.args[2] > l.earning_pool - l.earning_used
       \/ r.op = "BuybackAndBurn" /\ \/ l.fee_authority # r.args[1][1]
                                     \/ r.args[2] > b[r.args[3]].balance \div BUYBACK_RATE

\* C11: an instruction of either program whose precondition fails returns an
\* error, emits no state transition and leaves every entity it touches (the
\* pet; the ledger and all balance accounts) unchanged.
C11_AllOrNothing ==
    [][/\ (res'.op # "none" /\ PetPreconditionFails(pet, res')) =>
              (res'.code # "Ok" /\ ~res'.emitted /\ pet' = pet)
       /\ (steps' # steps /\ tres'.op # "none" /\ TokenPreconditionFails(ledger, bal, tres')) =>
              (tres'.code # "Ok" /\ ~tres'.emitted /\ ledger' = ledger /\ bal' = bal)]_vars

\* the amount a Burn or BuybackAndBurn recorded in outcome r asks to burn
BurnAmount(r) ==
    IF r.op = "Burn" THEN r.args[2] ELSE simulate_buyback(r.args[2]).tokens

\* C12: a Burn or BuybackAndBurn on an initialized ledger whose amount to
\* burn (for a buyback: btc_amount times the rate, where that product fits
\* a u64) exceeds circulating_supply fails with an error and changes
\* nothing; circulating_supply never wraps and the call never aborts in the
\* subtraction.
C12_BurnNeverUnderflows ==
    [][(/\ steps' # steps
        /\ tres'.op \in {"Burn", "BuybackAndBurn"}
        /\ ledger.exists
        /\ (tres'.op = "BuybackAndBurn" => ~simulate_buyback(tres'.args[2]).ovf)
        /\ BurnAmount(tres') > ledger.circulating_supply) =>
          /\ tres'.code \notin {"Ok", "Panic"}
          /\ ~tres'.emitted
          /\ ledger' = ledger /\ bal' = bal]_vars

----------------------------------------------------------------------------
(* Claims about minting                                                    *)

\* the amount the milestone rule grants from ledger l: the base reward, or
\* what is left of the pool when that is less
MilestoneGrant(l, milestone_type) ==
    LET remaining == l.milestone_pool - l.milestone_used
    IN  IF base_reward(milestone_type) <= remaining
        THEN base_reward(milestone_type) ELSE remaining

\* a MintMilestone recorded in outcome r was signed by the mint authority of
\* ledger l while the milestone pool was not yet used up
MilestoneByAuthority(l, r) ==
    /\ r.op = "MintMilestone"
    /\ l.exists
    /\ r.args[1] = <<l.mint_authority, TRUE>>
    /\ l.milestone_used < l.milestone_pool

\* C13: a MintMilestone signed by the mint authority, with the pool not used
\* up, succeeds and mints final_amount = base_reward(milestone_type) when
\* milestone_used + base_reward <= milestone_pool and the rest of the pool
\* otherwise (milestone_used then equals milestone_pool); dest balance,
\* milestone_used, total_supply and circulating_supply each grow by
\* final_amount.
C13_MintMilestoneAmount ==
    [][(steps' # steps /\ MilestoneByAuthority(ledger, tres')) =>
          LET final_amount == MilestoneGrant(ledger, tres'.args[2])
              dest == tres'.args[3]
          IN  /\ tres'.code = "Ok"
              /\ tres'.log = <<final_amount>>
              /\ bal'[dest].balance - bal[dest].balance = final_amount
              /\ ledger'.milestone_used - ledger.milestone_used = final_amount
              /\ ledger'.total_supply - ledger.total_supply = final_amount
              /\ ledger'.circulating_supply - ledger.circulating_supply = final_amount
              /\ (final_amount < base_reward(tres'.args[2]) =>
                    ledger'.milestone_used = ledger'.milestone_pool)]_vars

----------------------------------------------------------------------------
(* Claims about the pet's instructions                                     *)

\* C14: UpdateState with current_block = last_update_block + 1440 on an
\* Alive Baby pet whose last_fed_block equals last_update_block emits
\* hunger = min(100, hunger + 10), health = health - 5 and happiness =
\* happiness - 10 (both saturating at 0), care_mistakes + 1 and Status Dead.
C14_TenDaysOfNeglect ==
    [][(/\ pet.exists /\ pet.status = "Alive" /\ pet.level = "Baby"
        /\ pet.last_fed_block = pet.last_update_block
        /\ res'.op = "UpdateState"
        /\ res'.args = <<pet.last_update_block + 1440>>) =>
          /\ res'.emitted
          /\ pet'.hunger = Min(100, pet.hunger + 10)
          /\ pet'.health = SatSub(pet.health, 5)
          /\ pet'.happiness = SatSub(pet.happiness, 10)
          /\ pet'.care_mistakes = pet.care_mistakes + 1
          /\ pet'.status = "Dead"]_vars

\* C14 witness: the UpdateState ten days after Initialize has just emitted a
\* Dead Baby with hunger 10, health 95, happiness 90 and one care mistake.
C14_Witness ==
    /\ res.op = "UpdateState" /\ res.args = <<INIT_BLOCK + 1440>> /\ res.emitted
    /\ pet.level = "Baby" /\ pet.status = "Dead"
    /\ pet.last_fed_block = INIT_BLOCK
    /\ pet.hunger = 10 /\ pet.health = 95 /\ pet.happiness = 90
    /\ pet.care_mistakes = 1

\* C15: an Initialize signed by the owner account emits a pet with
\* Level = Baby, Status = Alive, health 100, happiness 100, hunger 0, zero
\* care and reward counters, the five block stamps equal to the block height
\* of the chain at the call and evolution_eligible_block = that height + 1008
\* (801008 at height 800000); without the signature it fails and emits
\* nothing.
C15_InitializeResult ==
    [][(height' = height /\ res'.op = "Initialize") =>
          IF res'.args[2]
          THEN /\ res'.code = "Ok" /\ res'.emitted
               /\ pet'.exists
               /\ pet'.owner = res'.args[1]
               /\ pet'.inscription_id = res'.args[3]
               /\ pet'.level = "Baby" /\ pet'.status = "Alive"
               /\ pet'.health = 100 /\ pet'.happiness = 100 /\ pet'.hunger = 0
               /\ pet'.care_mistakes = 0 /\ pet'.perfect_care_days = 0
               /\ pet'.poop_count = 0 /\ ~pet'.sick
               /\ pet'.total_earned = 0 /\ pet'.unclaimed_rewards = 0
               /\ pet'.birth_block = height
               /\ pet'.last_fed_block = height
               /\ pet'.last_played_block = height
               /\ pet'.last_cleaned_block = height
               /\ pet'.last_update_block = height
               /\ pet'.evolution_eligible_block = height + 1008
               /\ (height = 800000 => pet'.evolution_eligible_block = 801008)
          ELSE /\ res'.code = "MissingRequiredSignature"
               /\ ~res'.emitted
               /\ pet' = pet]_vars

\* C17: Evolve, ClaimRewards and TransferOwnership applied to a pet whose
\* Status is Dead leave every field of the pet state unchanged.
C17_DeadPetNotMutated ==
    [][(/\ pet.exists /\ pet.status = "Dead"
        /\ res'.op \in {"Evolve", "ClaimRewards", "TransferOwnership"}) =>
          pet' = pet]_vars

AuthErrors == {"MissingRequiredSignature", "IllegalOwner"}

\* C18: Feed, Play, Clean and Medicine succeed only when the owner account
\* signed, its key equals state.owner and Status is Alive; every failure
\* leaves the pet state unchanged; on a Dead pet the call fails with an
\* authorization error when the signature is missing or the key is not the
\* owner's, and with Custom(1) only otherwise.
C18_CareActionChecks ==
    [][(res'.op \in {"Feed", "Play", "Clean", "Medicine"}) =>
          LET key == res'.args[1]
              signed == res'.args[2]
              authorized == signed /\ pet.owner = key
          IN  /\ res'.code = "Ok" =>
                    (pet.exists /\ authorized /\ pet.status = "Alive")
              /\ res'.code # "Ok" => (~res'.emitted /\ pet' = pet)
              /\ (pet.exists /\ ~authorized) => res'.code \in AuthErrors
              /\ (pet.exists /\ authorized /\ pet.status = "Dead") =>
                    res'.code = "Custom1"]_vars

\* C18 witness: a Medicine for a Dead pet, signed by a key that is not the
\* owner's, has just failed with the authorization error.
C18_Witness ==
    /\ pet.exists /\ pet.status = "Dead"
    /\ res.op = "Medicine" /\ res.args[2] /\ res.args[1] # pet.owner
    /\ res.code = "IllegalOwner"

\* C19: a ClaimRewards by the owner fails with Custom(4) and changes nothing
\* when unclaimed_rewards = 0; otherwise it sets unclaimed_rewards to 0,
\* reports the prior value as the claimed amount and changes no other field;
\* a ClaimRewards that directly follows a successful one fails.
C19_ClaimRewards ==
    [][(res'.op = "ClaimRewards") =>
          /\ (pet.exists /\ ByOwner(pet, res')) =>
                IF pet.unclaimed_rewards = 0
                THEN res'.code = "Custom4" /\ ~res'.emitted /\ pet' = pet
                ELSE /\ res'.code = "Ok" /\ res'.emitted
                     /\ res'.log = <<pet.unclaimed_rewards>>
                     /\ pet' = [pet EXCEPT !.unclaimed_rewards = 0]
          /\ (res.op = "ClaimRewards" /\ res.emitted) =>
                (res'.code # "Ok" /\ ~res'.emitted /\ pet' = pet)]_vars

\* C19 witness: a ClaimRewards has just paid out a positive amount, all the
\* pet has earned so far, and left unclaimed_rewards at 0.
C19_Witness ==
    /\ res.op = "ClaimRewards" /\ res.emitted
    /\ res.log[1] > 0 /\ res.log[1] = pet.total_earned
    /\ pet.unclaimed_rewards = 0

----------------------------------------------------------------------------
(* Claims about the dynamic burn helper, under SpecBurn                    *)

BurnCall(r) == r.op = "calculate_dynamic_burn"
BurnSupply(r) == Units(r.args[2][1], r.args[2][2])

\* value is floor(base(action) * circulating_supply / 10^18) of the exact product
ExactBurn(action, circulating_supply, value) ==
    LET product == WideMul(circulating_supply, burn_base(action))
    IN  /\ WideLeq(WideMul(NORMALIZATION, value), product)
        /\ ~WideLeq(WideMul(NORMALIZATION, value + 1), product)

\* C21: for each of the six actions and every circulating supply up to the
\* maximum supply, calculate_dynamic_burn returns
\* floor(base * circulating_supply / 10^18) without u64 overflow; the result
\* does not decrease when the circulating supply grows, it is positive for
\* feed_meal at 10^16 units, and an unknown action yields 0.
C21_DynamicBurnExact ==
    [][(steps' # steps /\ BurnCall(tres'))
        => /\ tres'.args[1] \in BurnActions
                => /\ ~tres'.ovf
                   /\ tres'.code = "Ok"
                   /\ ExactBurn(tres'.args[1], BurnSupply(tres'), tres'.log[1])
           /\ tres'.args[1] \notin BurnActions
                => tres'.code = "Ok" /\ tres'.log[1] = 0
           /\ tres'.args = <<"feed_meal", <<10000000, 0>> >>
                => tres'.code = "Ok" /\ tres'.log[1] > 0
           /\ (/\ BurnCall(tres)
               /\ tres.args[1] = tres'.args[1]
               /\ WideLeq(BurnSupply(tres), BurnSupply(tres')))
                => /\ tres.code = "Ok"
                   /\ tres'.code = "Ok"
                   /\ tres.log[1] <= tres'.log[1]]_vars

----------------------------------------------------------------------------
(* Claims about the pet program: evolution, feeding and the state update   *)

\* the evolution table as the specification states it:
\* <<reward, blocks to the next evolution>>
EvolveStated(level) ==
    CASE level = "Baby" -> <<50, 4032>>
      [] level = "Child" -> <<250, 17280>>
      [] level = "Teen" -> <<1500, 17280>>
      [] level = "Adult" -> <<25000, 11520>>
      [] level = "Senior" -> <<2000000, 0>>
      [] OTHER -> <<0, 0>>

Vitals(p) == <<p.health, p.happiness, p.hunger>>

C23_EvolveOnceChainIsEligible ==
    [][(/\ pet.exists
        /\ height' = height
        /\ res'.op = "Evolve"
        /\ ByOwner(pet, res')
        /\ pet.level = "Baby"
        /\ height >= pet.evolution_eligible_block) =>
          /\ res'.emitted
          /\ pet'.level = "Child"]_vars

\* the fields a Feed may write
FeedFields == {"hunger", "health", "last_fed_block", "poop_count"}

\* C24: a successful Feed sets hunger = max(0, hunger - 50),
\* health = min(100, health + 10) and last_fed_block = the block height of
\* the chain at the call, and changes no field other than these and
\* poop_count.
C24_FeedEffect ==
    [][(pet.exists /\ height' = height /\ res'.op = "Feed" /\ res'.emitted) =>
          /\ pet'.hunger = IF pet.hunger > 50 THEN pet.hunger - 50 ELSE 0
          /\ pet'.health = IF pet.health + 10 < 100 THEN pet.health + 10 ELSE 100
          /\ pet'.last_fed_block = height
          /\ \A f \in DOMAIN pet \ FeedFields : pet'[f] = pet[f]]_vars

\* C25: Feed increments poop_count (capped at 8) on one block height in
\* every five, the heights divisible by 5, and leaves it unchanged on the
\* other four.
C25_PoopOneHeightInFive ==
    [][(pet.exists /\ height' = height /\ res'.op = "Feed" /\ res'.emitted) =>
          pet'.poop_count =
              IF height % 5 = 0 THEN Min(pet.poop_count + 1, 8)
              ELSE pet.poop_count]_vars

\* an UpdateState step and the current_block it was given
UpdateCall(r) == r.op = "UpdateState"
UpdateBlock(r) == r.args[1]

\* C26: UpdateState returns success and emits nothing when the pet is Dead
\* or current_block <= last_update_block; otherwise it sets
\* last_update_block = current_block.  So last_update_block never decreases
\* and an UpdateState repeated with the same current_block changes nothing.
C26_UpdateStateClock ==
    [][(pet.exists /\ UpdateCall(res')) =>
          /\ IF pet.status = "Dead" \/ UpdateBlock(res') <= pet.last_update_block
             THEN res'.code = "Ok" /\ ~res'.emitted /\ pet' = pet
             ELSE res'.code = "Ok" /\ pet'.last_update_block = UpdateBlock(res')
          /\ pet'.last_update_block >= pet.last_update_block]_vars

\* an UpdateState with blocks_elapsed > 0 issued on the Alive pet p
Effective(p, r) ==
    /\ p.exists
    /\ p.status = "Alive"
    /\ UpdateCall(r)
    /\ UpdateBlock(r) > p.last_update_block

BlocksElapsed(p, r) == UpdateBlock(r) - p.last_update_block

\* the health decay divisors as the specification states them; 0: no decay
DecayDivisorStated(level) ==
    CASE level = "Baby" -> 288
      [] level = "Child" -> 144
      [] level = "Teen" -> 96
      [] level = "Adult" -> 72
      [] level = "Senior" -> 48
      [] OTHER -> 0

HealthAfterDecay(p, r) ==
    IF DecayDivisorStated(p.level) = 0 THEN p.health
    ELSE SatSub(p.health, BlocksElapsed(p, r) \div DecayDivisorStated(p.level))

\* C27: for every blocks_elapsed > 0, also 256 * 144 blocks and more, an
\* UpdateState on an Alive pet sets hunger = min(100, hunger + days),
\* happiness = max(0, happiness - days) with days = floor(blocks_elapsed/144)
\* and health = max(0, health - floor(blocks_elapsed/d)), d = 288, 144, 96,
\* 72, 48 for Baby to Senior and no decay for any other level.
C27_VitalsAfterUpdate ==
    [][Effective(pet, res') =>
          /\ pet'.hunger = Min(100, pet.hunger + BlocksElapsed(pet, res') \div 144)
          /\ pet'.happiness = SatSub(pet.happiness, BlocksElapsed(pet, res') \div 144)
          /\ pet'.health = HealthAfterDecay(pet, res')]_vars

\* the feed thresholds as the specification states them
FeedThresholdStated(level) ==
    CASE level = "Baby" -> 144
      [] level = "Child" -> 120
      [] level = "Teen" -> 108
      [] level = "Adult" -> 96
      [] level = "Senior" -> 84
      [] OTHER -> 144

BlocksSinceFed(p, r) == SatSub(UpdateBlock(r), p.last_fed_block)

\* C28: every UpdateState with blocks_elapsed > 0 on an Alive pet increments
\* care_mistakes by exactly 1 when current_block - last_fed_block exceeds the
\* level's feed threshold and leaves it unchanged otherwise, for every prior
\* value of the counter, 255 included.
C28_CareMistakeCounted ==
    [][Effective(pet, res') =>
          pet'.care_mistakes =
              IF BlocksSinceFed(pet, res') > FeedThresholdStated(pet.level)
              THEN pet.care_mistakes + 1
              ELSE pet.care_mistakes]_vars

\* the neglect limits in days as the specification states them; no limit
\* for the other levels
NeglectKills(level, days_neglected) ==
    CASE level = "Baby" -> days_neglected > 5
      [] level = "Child" -> days_neglected > 3
      [] level = "Teen" -> days_neglected > 2
      [] level = "Adult" -> days_neglected > 2
      [] level = "Senior" -> days_neglected > 1
      [] OTHER -> FALSE

\* C29: an UpdateState with blocks_elapsed > 0 turns an Alive pet Dead if and
\* only if its health after decay is 0 or
\* floor((current_block - last_fed_block)/144) exceeds the level's limit
\* (Baby 5, Child 3, Teen 2, Adult 2, Senior 1); neglect never kills an
\* Ascended pet.
C29_DeathCondition ==
    [][Effective(pet, res') =>
          (pet'.status = "Dead"
             <=> \/ HealthAfterDecay(pet, res') = 0
                 \/ NeglectKills(pet.level, BlocksSinceFed(pet, res') \div 144))]_vars

\* the hourly base rates as the specification states them
BaseRateStated(level) ==
    CASE level = "Baby" -> 20
      [] level = "Child" -> 40
      [] level = "Teen" -> 120
      [] level = "Adult" -> 300
      [] level = "Senior" -> 800
      [] level = "Ascended" -> 1000
      [] OTHER -> 0

RateStated(p) == (BaseRateStated(p.level) * p.care_multiplier) \div 100
HoursElapsed(p, r) == BlocksElapsed(p, r) \div 6

\* grown is rate * hours, as natural numbers
IsProduct(grown, rate, hours) ==
    IF rate = 0 THEN grown = 0
    ELSE grown % rate = 0 /\ grown \div rate = hours

\* C30: every UpdateState with blocks_elapsed > 0 on an Alive pet, the one
\* that makes it Dead included, adds
\* floor(base_rate(level) * care_multiplier / 100) * floor(blocks_elapsed/6)
\* to unclaimed_rewards and to total_earned; an UpdateState on a Dead pet
\* adds nothing.
C30_RewardsAccrued ==
    [][(pet.exists /\ UpdateCall(res')) =>
          IF Effective(pet, res')
          THEN /\ pet'.unclaimed_rewards >= pet.unclaimed_rewards
               /\ pet'.total_earned >= pet.total_earned
               /\ IsProduct(pet'.unclaimed_rewards - pet.unclaimed_rewards,
                            RateStated(pet), HoursElapsed(pet, res'))
               /\ IsProduct(pet'.total_earned - pet.total_earned,
                            RateStated(pet), HoursElapsed(pet, res'))
          ELSE /\ pet'.unclaimed_rewards = pet.unclaimed_rewards
               /\ pet'.total_earned = pet.total_earned]_vars

----------------------------------------------------------------------------
(* Claims about the token program: minting and conservation                *)

MintOps == {"MintMilestone", "MintEarning"}

\* the call recorded in outcome r was signed by the mint authority of ledger l
ByMintAuthority(l, r) == l.exists /\ r.args[1] = <<l.mint_authority, TRUE>>

\* C31: MintMilestone and MintEarning succeed only when the authority account
\* signed and its key equals ledger.mint_authority; a MintMilestone by the
\* mint authority fails with PoolExhausted (Custom(2)) exactly when
\* milestone_used = milestone_pool, and then nothing changes; the amount
\* argument of MintMilestone has no influence on the minted amount.
C31_MintAuthorityAndPool ==
    [][(steps' # steps /\ tres'.op \in MintOps) =>
          /\ (tres'.code = "Ok" \/ tres'.emitted) => ByMintAuthority(ledger, tres')
          /\ (tres'.op = "MintMilestone" /\ ByMintAuthority(ledger, tres')) =>
                /\ tres'.code = "Custom2"
                      <=> ledger.milestone_used = ledger.milestone_pool
                /\ tres'.code = "Custom2" =>
                      ~tres'.emitted /\ ledger' = ledger /\ bal' = bal
                /\ tres'.code = "Ok" =>
                      tres'.log = <<MilestoneGrant(ledger, tres'.args[2])>>]_vars

\* C31 witness: the mint authority's MintMilestone, asking for an amount of
\* u64::MAX, has just failed with Custom(2) on a pool that is used up.
C31_Witness ==
    /\ tres.op = "MintMilestone" /\ tres.code = "Custom2"
    /\ ByMintAuthority(ledger, tres)
    /\ tres.args[4] = U64_MAX
    /\ ledger.milestone_used = ledger.milestone_pool

\* C32: for every u64 amount, a MintEarning by the mint authority succeeds if
\* and only if earning_used + amount <= earning_pool as unbounded integers,
\* and then adds exactly amount to the dest balance, earning_used,
\* total_supply and circulating_supply; otherwise it fails with
\* PoolExhausted (Custom(3)) and changes nothing.
C32_MintEarningExact ==
    [][(steps' # steps /\ tres'.op = "MintEarning" /\ ByMintAuthority(ledger, tres')) =>
          LET amount == tres'.args[2]
              dest == tres'.args[3]
          IN  IF /\ ledger.earning_used <= ledger.earning_pool
                 /\ amount <= ledger.earning_pool - ledger.earning_used
              THEN /\ tres'.code = "Ok"
                   /\ bal'[dest].balance - bal[dest].balance = amount
                   /\ ledger'.earning_used - ledger.earning_used = amount
                   /\ ledger'.total_supply - ledger.total_supply = amount
                   /\ ledger'.circulating_supply - ledger.circulating_supply = amount
              ELSE /\ tres'.code = "Custom3"
                   /\ ~tres'.emitted
                   /\ ledger' = ledger
                   /\ bal' = bal]_vars

----------------------------------------------------------------------------
(* Claims about the pet program: feeding after an update, repeated updates *)

\* C33: after a successful Feed issued at or after the block of the latest
\* UpdateState, last_fed_block is at least last_update_block (so that an
\* UpdateState for a block less than 144 blocks after the Feed finds
\* days_neglected = 0 and counts no care mistake).
C33_FedNotBeforeUpdate ==
    [][(/\ pet.exists
        /\ height' = height
        /\ res'.op = "Feed"
        /\ res'.emitted
        /\ height >= pet.last_update_block) =>
          pet'.last_fed_block >= pet'.last_update_block]_vars

----------------------------------------------------------------------------
(* Claims about the token program: the supply counters and the balances    *)

SupplyCounters(l) == <<l.total_supply, l.circulating_supply, l.total_burned>>

\* C34: in every ledger state reached from Initialize by Transfer, Burn,
\* MintMilestone, MintEarning and BuybackAndBurn,
\* total_supply = circulating_supply + total_burned; a Transfer changes none
\* of the three counters, and a burn or buyback leaves total_supply
\* unchanged.
C34_SupplyIdentity ==
    [][(steps' # steps /\ ledger'.exists) =>
          /\ ledger'.total_supply - ledger'.total_burned = ledger'.circulating_supply
          /\ tres'.op = "Transfer" => SupplyCounters(ledger') = SupplyCounters(ledger)
          /\ tres'.op \in {"Burn", "BuybackAndBurn"} =>
                ledger'.total_supply = ledger.total_supply]_vars

\* the change of the balance of account a in a step
BalanceChange(a) == bal'[a].balance - bal[a].balance

\* x + y + z = 0, for three changes of u64 values
SumIsZero(x, y, z) ==
    IF (x >= 0 /\ y <= 0) \/ (x <= 0 /\ y >= 0) THEN x + y = 0 - z
    ELSE IF (x > 0 /\ z >= 0) \/ (x < 0 /\ z <= 0) THEN FALSE
    ELSE x + z = 0 - y

\* C35: a successful Transfer conserves tokens: the sum of the balances of
\* all balance accounts is the same before and after the call, also when
\* source, destination and fee account are not pairwise distinct.
C35_TransferConserves ==
    [][(steps' # steps /\ tres'.op = "Transfer" /\ tres'.emitted) =>
          SumIsZero(BalanceChange("a1"), BalanceChange("a2"), BalanceChange("a3"))]_vars

----------------------------------------------------------------------------
(* Claims about the pet program: repeated and unauthenticated updates      *)

\* the pet state after an UpdateState with current_block on the state p
AfterUpdate(p, current_block) ==
    LET r == process_update_state(p, current_block)
    IN  IF r.emit /\ ~(overflow_checks /\ (r.ovf8 \/ r.ovf64)) THEN r.state ELSE p

UpdateOutcome(p) ==
    <<p.hunger, p.health, p.happiness, p.care_mistakes, p.status, p.unclaimed_rewards>>

\* C36: for an Alive pet and last_update_block < b1 < b2, UpdateState(b1)
\* directly followed by UpdateState(b2) leaves the same hunger, health,
\* happiness, care_mistakes, status and unclaimed_rewards as a single
\* UpdateState(b2).
C36_UpdateSplitInvariant ==
    [][Effective(pet, res') =>
          \A b2 \in BlockInputs :
              b2 > UpdateBlock(res') =>
                  UpdateOutcome(AfterUpdate(pet', b2)) = UpdateOutcome(AfterUpdate(pet, b2))]_vars

\* p is a pet as its Initialize left it
Fresh(p) ==
    /\ p.exists
    /\ p = process_initialize(p.owner, TRUE, p.inscription_id).state

\* C37: UpdateState checks neither a signature nor the owner and takes
\* current_block from the caller without comparing it with the chain: it
\* never fails with an authorization error, an effective call ahead of the
\* chain's height is applied as given, and from a freshly initialized pet a
\* single UpdateState ten days ahead reaches Status = Dead.
C37_UpdateStateUnauthenticated ==
    [][(pet.exists /\ UpdateCall(res')) =>
          /\ res'.code \notin AuthErrors
          /\ (Effective(pet, res') /\ res'.code = "Ok") =>
                /\ res'.emitted
                /\ pet'.last_update_block = UpdateBlock(res')
          /\ (Fresh(pet) /\ UpdateBlock(res') = height + 10 * BLOCKS_PER_DAY) =>
                /\ res'.emitted
                /\ pet'.status = "Dead"]_vars

\* C37 witness: one UpdateState ten days ahead of the chain has just killed
\* a pet that had only been initialized.
C37_Witness ==
    /\ UpdateCall(res) /\ res.emitted
    /\ UpdateBlock(res) = height + 10 * BLOCKS_PER_DAY
    /\ pet.status = "Dead"
    /\ pet.last_update_block = UpdateBlock(res)
    /\ pet.birth_block = height
    /\ pet.care_mistakes = 1
    /\ pet.total_earned = 4800

\* C38: a pet that is Alive has health > 0.  Health is lowered only by
\* UpdateState, which sets Status to Dead in the same call whenever health
\* reaches 0, and no instruction other than Initialize sets Status to Alive.
C38_AliveHasHealth ==
    /\ [](pet.exists /\ pet.status = "Alive" => pet.health > 0)
    /\ [][/\ (pet.exists /\ pet'.health < pet.health) => UpdateCall(res')
          /\ (UpdateCall(res') /\ pet' # pet /\ pet'.health = 0) =>
                pet'.status = "Dead"
          /\ (pet'.exists /\ pet'.status = "Alive"
                /\ ~(pet.exists /\ pet.status = "Alive")) =>
                res'.op = "Initialize"]_vars

\* C38 witness: an UpdateState one day on has just taken a Senior's health to
\* 0 and set it Dead, although one day without food does not kill a Senior.
C38_Witness ==
    /\ UpdateCall(res) /\ res.emitted
    /\ pet.level = "Senior"
    /\ UpdateBlock(res) = pet.last_fed_block + BLOCKS_PER_DAY
    /\ ~should_die(pet, UpdateBlock(res))
    /\ pet.health = 0
    /\ pet.status = "Dead"

----------------------------------------------------------------------------
(* The oracle relay (contracts/oracle).  One sync cycle is one step: the    *)
(* service is a single loop, and nothing else touches its database.  What  *)
(* the cycle reads from outside is an input of the step: the Bitcoin tip,  *)
(* the submissions that fail, and the call that returns an error, if any.  *)
(* The wall-clock columns (last_synced_timestamp, processed_at) are left   *)
(* out.                                                                    *)

CONFIRMATIONS_REQUIRED == 3

MaxTip == 6
Tips == 0..MaxTip

BitcoinAddresses == {"bc1a", "bc1b", "bc1c"}

\* the key registered by register_address in the model
ArchKeys == {"k1"}

\* The Ordinals transfers on the Bitcoin chain, by block height: insc1 moves
\* twice, insc2 once.
ChainTransfers ==
    << [inscription_id |-> "insc1", from_address |-> "bc1c",
        to_address |-> "bc1a", bitcoin_txid |-> "tx1", block_height |-> 1],
       [inscription_id |-> "insc2", from_address |-> "bc1a",
        to_address |-> "bc1c", bitcoin_txid |-> "tx2", block_height |-> 2],
       [inscription_id |-> "insc1", from_address |-> "bc1a",
        to_address |-> "bc1b", bitcoin_txid |-> "tx3", block_height |-> 3] >>

Transfers == {ChainTransfers[i] : i \in DOMAIN ChainTransfers}

\* the call of a cycle that returns Err, and for the calls of the loop the
\* iteration in which it does
NoError == [at |-> "none", index |-> 0]
Errors ==
    {NoError}
    \cup {[at |-> c, index |-> 0] :
            c \in {"get_block_count", "get_sync_state",
                   "fetch_ordinals_transfers", "update_sync_state"}}
    \cup {[at |-> c, index |-> i] :
            c \in {"is_transfer_processed", "mark_transfer_processed"},
            i \in DOMAIN ChainTransfers}

\* GET /inscriptions/transfers?start_block=..&end_block=..
fetch_ordinals_transfers(start_block, end_block) ==
    SelectSeq(ChainTransfers,
              LAMBDA t : start_block <= t.block_height /\ t.block_height <= end_block)

\* SELECT COUNT(*) FROM processed_transfers WHERE inscription_id = ?1
is_transfer_processed(rows, inscription_id) ==
    \E row \in rows : row.inscription_id = inscription_id

\* INSERT INTO processed_transfers
mark_transfer_processed(rows, transfer, arch_txid) ==
    rows \cup {[inscription_id |-> transfer.inscription_id,
                bitcoin_txid |-> transfer.bitcoin_txid,
                from_address |-> transfer.from_address,
                to_address |-> transfer.to_address,
                block_height |-> transfer.block_height,
                arch_txid |-> arch_txid]}

\* The `for transfer in transfers` loop from iteration i on.  acc holds the
\* table, the submissions made, the count `processed` and the result so far.
RECURSIVE process_transfers(_, _, _, _, _, _)
process_transfers(transfers, i, acc, registry, failing, error) ==
    IF i > Len(transfers) THEN acc
    ELSE
    LET transfer == transfers[i] IN
    IF error = [at |-> "is_transfer_processed", index |-> i]
    THEN [acc EXCEPT !.result = "Err"]
    ELSE IF is_transfer_processed(acc.processed_transfers, transfer.inscription_id)
    THEN process_transfers(transfers, i + 1, acc, registry, failing, error)
    ELSE
    LET sent == /\ transfer.to_address \in DOMAIN registry
                /\ transfer \notin failing
        now_submitted == IF sent THEN acc.submitted \cup {transfer}
                         ELSE acc.submitted
    IN  IF error = [at |-> "mark_transfer_processed", index |-> i]
        THEN [acc EXCEPT !.submitted = now_submitted, !.result = "Err"]
        ELSE process_transfers(transfers, i + 1,
                 [processed_transfers |->
                      mark_transfer_processed(acc.processed_transfers, transfer,
                                              IF sent THEN "arch_txid" ELSE "NULL"),
                  submitted |-> now_submitted,
                  processed |-> acc.processed + (IF sent THEN 1 ELSE 0),
                  result |-> "Ok"],
                 registry, failing, error)

\* UPDATE sync_state SET last_synced_block = ?1,
\*   total_transfers_processed = total_transfers_processed + ?3
update_sync_state(state, block, transfers_processed) ==
    [last_synced_block |-> block,
     total_transfers_processed |-> state.total_transfers_processed + transfers_processed]

\* mutant of NoNewBlocks: the cycle goes on without new confirmed blocks
NoNewBlocks_Missing(start_block, confirmed_block) == FALSE

\* `if start_block > confirmed_block { return Ok(0); }`
NoNewBlocks(start_block, confirmed_block) == start_block > confirmed_block

\* the record of a cycle that scanned no block range
CycleRead(tip, result) ==
    [tip |-> tip, result |-> result, scanning |-> FALSE,
     start_block |-> 0, confirmed_block |-> 0, returned |-> {}, relayable |-> {}]

\* sync_cycle with the tip, the failing submissions and the failing call
\* given: the database, the submissions and the record of the cycle after it
sync_cycle(tip, failing, error) ==
    LET unchanged == [sync_state |-> sync_state,
                      processed_transfers |-> processed_transfers,
                      submitted |-> submitted, scanned |-> scanned,
                      cycle |-> cycle]
        start_block == sync_state.last_synced_block + 1
        confirmed_block == SatSub(tip, CONFIRMATIONS_REQUIRED)
        transfers == fetch_ordinals_transfers(start_block, confirmed_block)
        range == [CycleRead(tip, "Ok") EXCEPT
                     !.scanning = TRUE,
                     !.start_block = start_block,
                     !.confirmed_block = confirmed_block]
        fetched == [range EXCEPT
                     !.returned = {transfers[i] : i \in DOMAIN transfers},
                     !.relayable = {transfers[i] : i \in
                         {j \in DOMAIN transfers :
                             transfers[j].to_address \in DOMAIN address_registry}}]
        loop == process_transfers(transfers, 1,
                    [processed_transfers |-> processed_transfers,
                     submitted |-> submitted, processed |-> 0, result |-> "Ok"],
                    address_registry, failing, error)
        partial == [unchanged EXCEPT
                     !.processed_transfers = loop.processed_transfers,
                     !.submitted = loop.submitted]
    IN  IF error.at \in {"get_block_count", "get_sync_state"}
        THEN [unchanged EXCEPT !.cycle = CycleRead(tip, "Err")]
        ELSE IF NoNewBlocks(start_block, confirmed_block)
        THEN [unchanged EXCEPT !.cycle = CycleRead(tip, "Ok")]
        ELSE IF error.at = "fetch_ordinals_transfers"
        THEN [unchanged EXCEPT !.cycle = [range EXCEPT !.result = "Err"]]
        ELSE IF loop.result = "Err" \/ error.at = "update_sync_state"
        THEN [partial EXCEPT !.cycle = [fetched EXCEPT !.result = "Err"]]
        ELSE [partial EXCEPT
                 !.sync_state =
                     update_sync_state(sync_state, confirmed_block, loop.processed),
                 !.scanned = scanned \cup (start_block..confirmed_block),
                 !.cycle = fetched]

OracleFrame ==
    UNCHANGED <<overflow_checks, pet, res, ledger, bal, tres, steps, height>>

SyncCycleWith(tip, failing, error) ==
    LET after == sync_cycle(tip, failing, error)
    IN  /\ sync_state' = after.sync_state
        /\ processed_transfers' = after.processed_transfers
        /\ submitted' = after.submitted
        /\ scanned' = after.scanned
        /\ cycle' = after.cycle
        /\ UNCHANGED address_registry
        /\ OracleFrame

\* one iteration of the loop of run()
SyncCycle ==
    \E tip \in Tips, failing \in SUBSET Transfers, error \in Errors :
        SyncCycleWith(tip, failing, error)

\* INSERT OR REPLACE INTO address_mappings, then address_registry.insert
register_address(registry, bitcoin_address, arch_pubkey) ==
    (bitcoin_address :> arch_pubkey) @@ registry

RegisterAddress ==
    /\ \E bitcoin_address \in BitcoinAddresses, arch_pubkey \in ArchKeys :
          address_registry' =
              register_address(address_registry, bitcoin_address, arch_pubkey)
    /\ UNCHANGED <<sync_state, processed_transfers, submitted, scanned, cycle>>
    /\ OracleFrame

OracleStep ==
    \/ SyncCycle
    \/ RegisterAddress

\* Oracle::new on a new database holding two address mappings
OracleInit ==
    /\ overflow_checks = FALSE
    /\ pet = NoPet
    /\ res = NoOutcome
    /\ ledger = 0
    /\ bal = 0
    /\ tres = 0
    /\ steps = 0
    /\ height = CURRENT_BLOCK
    /\ sync_state = [last_synced_block |-> 0, total_transfers_processed |-> 0]
    /\ processed_transfers = {}
    /\ address_registry = ("bc1a" :> "k1") @@ ("bc1b" :> "k2")
    /\ submitted = {}
    /\ scanned = {}
    /\ cycle = CycleRead(0, "none")

SpecOracle == OracleInit /\ [][OracleStep]_vars

\* A cycle in which every call succeeds, run with the chain at MaxTip.  The
\* loop of run() starts a cycle every poll interval for ever; SpecOracleFair
\* assumes in addition that such cycles keep succeeding.
CleanCycle == SyncCycleWith(MaxTip, {}, NoError)

SpecOracleFair == SpecOracle /\ WF_vars(CleanCycle)

----------------------------------------------------------------------------
(* Claims about the oracle relay                                           *)

\* C39: every Ordinals transfer that a cycle got back for its confirmed
\* block range, and whose to_address was in the address registry, eventually
\* has an ownership update submitted for it.
C39_RelayedEventually ==
    \A transfer \in Transfers :
        (transfer \in cycle.relayable) ~> (transfer \in submitted)

\* the block range the last cycle scanned
CycleRange(c) == IF c.scanning THEN c.start_block..c.confirmed_block ELSE {}

\* C40: last_synced_block never decreases; a cycle that writes it succeeded
\* and writes at most tip - confirmations_required of the tip it read; the
\* range it scanned starts at the previous last_synced_block + 1 and ends at
\* the new one, so the ranges of the successful cycles are contiguous and
\* do not overlap: together they are exactly 1..last_synced_block.
C40_SyncProgress ==
    /\ [](scanned = 1..sync_state.last_synced_block)
    /\ [][cycle' # cycle =>
            /\ sync_state'.last_synced_block >= sync_state.last_synced_block
            /\ sync_state'.last_synced_block # sync_state.last_synced_block =>
                  /\ cycle'.result = "Ok"
                  /\ sync_state'.last_synced_block
                        <= cycle'.tip - CONFIRMATIONS_REQUIRED
                  /\ cycle'.start_block = sync_state.last_synced_block + 1
                  /\ cycle'.confirmed_block = sync_state'.last_synced_block
            /\ (cycle'.result = "Ok" /\ cycle'.scanning) =>
                  /\ CycleRange(cycle') # {}
                  /\ CycleRange(cycle') \cap scanned = {}
                  /\ scanned' = scanned \cup CycleRange(cycle')
                  /\ sync_state'.last_synced_block = cycle'.confirmed_block
            /\ ~(cycle'.result = "Ok" /\ cycle'.scanning) =>
                  sync_state' = sync_state /\ scanned' = scanned]_vars

\* C40 witness: blocks 1..3 are synced and both inscriptions recorded, and
\* the last cycle, which read a tip behind the synced block, returned Ok
\* without writing.
C40_Witness ==
    /\ cycle.result = "Ok" /\ ~cycle.scanning
    /\ cycle.tip < sync_state.last_synced_block
    /\ sync_state.last_synced_block = 3
    /\ scanned = 1..3
    /\ Cardinality(processed_transfers) = 2
====
